---- MODULE Spec2Model ----
(***************************************************************************)
(* OxaPay deposit system (newdepositmethods.py): the webhook handler that  *)
(* credits wallets, and the Telegram conversation that creates invoices.   *)
(*                                                                         *)
(* Strings the code parses or converts (order references, status,          *)
(* currency) are sequences of one-character strings, so that split,        *)
(* isdigit, int, lower and upper are computed as the code computes them.   *)
(* Amounts are fixed-point integers (1 unit = 1e-6 coin / 1e-6 USD).       *)
(* The event loop is cooperative: `cur` is the webhook task that holds the *)
(* loop; a task gives it up only at an await.                              *)
(***************************************************************************)
EXTENDS Integers, Sequences, FiniteSets, TLC

\* ------------------------------------------------------------------ bounds
MaxDeliveries == 2      \* webhook deliveries handled in one behaviour
MaxClock == 6           \* the clock (unix seconds) stops advancing here
MaxInvoices == 1        \* invoice-creation requests sent in one behaviour
SpecDeliveries == 1     \* webhook deliveries in one behaviour of the whole system

\* ----------------------------------------------------------------- strings
None == <<>>                      \* an absent dict key / Python None
Some(v) == <<v>>
IsNone(o) == o = <<>>
Val(o) == o[1]

UpperLetters == <<"A","B","C","D","E","F","G","H","I","J","K","L","M",
                  "N","O","P","Q","R","S","T","U","V","W","X","Y","Z">>
LowerLetters == <<"a","b","c","d","e","f","g","h","i","j","k","l","m",
                  "n","o","p","q","r","s","t","u","v","w","x","y","z">>
DigitChars == <<"0","1","2","3","4","5","6","7","8","9">>

LowerChar(c) ==
    IF \E i \in 1..26 : UpperLetters[i] = c
    THEN LowerLetters[CHOOSE i \in 1..26 : UpperLetters[i] = c]
    ELSE c
UpperChar(c) ==
    IF \E i \in 1..26 : LowerLetters[i] = c
    THEN UpperLetters[CHOOSE i \in 1..26 : LowerLetters[i] = c]
    ELSE c
\* str.lower() / str.upper()
lower(s) == [i \in 1..Len(s) |-> LowerChar(s[i])]
upper(s) == [i \in 1..Len(s) |-> UpperChar(s[i])]

\* str.isdigit(): non-empty and every character a digit
isdigit(s) == Len(s) > 0 /\ \A i \in 1..Len(s) : \E d \in 1..10 : DigitChars[d] = s[i]
DigitVal(c) == (CHOOSE d \in 1..10 : DigitChars[d] = c) - 1
\* int(s) for a string of digits
RECURSIVE int(_)
int(s) == IF Len(s) = 0 THEN 0
          ELSE 10 * int(SubSeq(s, 1, Len(s) - 1)) + DigitVal(s[Len(s)])
\* f"{n}" for n >= 0
RECURSIVE fmt_int(_)
fmt_int(n) == IF n < 10 THEN <<DigitChars[n + 1]>>
              ELSE fmt_int(n \div 10) \o <<DigitChars[(n % 10) + 1]>>

\* "_" in s
has_underscore(s) == \E i \in 1..Len(s) : s[i] = "_"
\* s.split("_")[0]
split_first(s) ==
    IF has_underscore(s)
    THEN SubSeq(s, 1, (CHOOSE i \in 1..Len(s) :
                          s[i] = "_" /\ \A j \in 1..(i - 1) : s[j] # "_") - 1)
    ELSE s

\* ------------------------------------------------------------ configuration
OXAPAY_MIN_DEPOSIT_USD == 5
OXAPAY_SUPPORTED_CURRENCIES ==
    { <<"B","T","C">>, <<"E","T","H">>, <<"U","S","D","T">>, <<"L","T","C">>,
      <<"T","R","X">>, <<"B","N","B">>, <<"S","O","L">> }
SANDBOX == <<"s","a","n","d","b","o","x">>
LIVE_KEY == <<"k","1">>
WRONG_KEY == <<"k","2">>
BTC == <<"B","T","C">>
USDT == <<"U","S","D","T">>

\* ------------------------------------------------------- collaborator data
\* bot.py is not part of the sources: users, prices and storage are modelled
\* from the collaborator interfaces the code calls.
Users == {1, 2, 12}              \* telegram ids; 2 has no wallet record at all
DiskUsers == {1, 12}             \* users with a persisted record
MemoryUsers == {1}               \* users loaded in memory at startup
Coins == {BTC, USDT}
Referrer(u) == IF u = 1 THEN 12 ELSE 0       \* 0: not referred
\* LIVE_PRICES.get(coin): BTC has a price, USDT has none
LIVE_PRICES(coin) == IF coin = BTC THEN Some(3) ELSE None

NewWallet == [c \in Coins |-> 0]
NewStats(u) == [unwagered_deposit |-> 0, referrer_id |-> Referrer(u),
                commissions |-> [c \in Coins |-> 0]]

\* ------------------------------------------------------------ webhook body
\* HMAC-SHA256(key, body).hexdigest(), abstracted as an injective pairing
hmac_new(key, body) == [key |-> key, body |-> body]

StatusOpts == { None, Some(<<"p","a","i","d">>), Some(<<"C","o","n","f","i","r","m","e","d">>),
                Some(<<"c","o","m","p","l","e","t","e","d">>), Some(<<"w","a","i","t","i","n","g">>) }
OrderOpts == { None, Some(<<"1","_","5">>), Some(<<"1","_","6">>), Some(<<"1","2","_","5">>),
               Some(<<"2","_","5">>), Some(<<"a","_","5">>), Some(<<"1","5">>) }
TrackOpts(order) == IF IsNone(order) THEN { None, Some(<<"T">>) } ELSE { Some(<<"T">>) }
PayAmountOpts == { None, Some(-200), Some(200) }
PayAmountAltOpts == { None, Some(400) }
AmountOpts == { None, Some(600) }
CurrencyOpts == { None, Some(<<"b","t","c">>) }

\* The request bodies handled. Each family varies the fields one stage of the
\* handler reads, on bodies that reach that stage.
Base == [status |-> Some(<<"p","a","i","d">>), orderId |-> Some(<<"1","_","5">>),
         trackId |-> Some(<<"T">>), amount |-> None, currency |-> None,
         payAmount |-> Some(200), pay_amount |-> None]
\* who is paid, in which coin, a positive or a negative amount
IdentityFields ==
    { [Base EXCEPT !.orderId = x[1], !.trackId = x[2], !.currency = x[3], !.payAmount = x[4]] :
        x \in { y \in OrderOpts \X {None, Some(<<"T">>)} \X CurrencyOpts \X {Some(-200), Some(200)} :
                  y[2] \in TrackOpts(y[1]) } }
\* which of payAmount, pay_amount and amount are present
AmountFields ==
    { [Base EXCEPT !.payAmount = x[1], !.pay_amount = x[2], !.amount = x[3]] :
        x \in PayAmountOpts \X PayAmountAltOpts \X AmountOpts }
\* status and signature, for an order of a user in memory and of one on disk
GateFields ==
    { [Base EXCEPT !.status = x[1], !.orderId = x[2]] :
        x \in StatusOpts \X {Some(<<"1","_","5">>), Some(<<"1","2","_","5">>)} }
EmptyFields == [status |-> None, orderId |-> None, trackId |-> None, amount |-> None,
                currency |-> None, payAmount |-> None, pay_amount |-> None]
\* the hmac field "" (present but empty)
EmptyHmac == hmac_new(<<>>, EmptyFields)
\* a body signed before it was altered
Tampered(f) == [f EXCEPT !.payAmount = Some(999)]
HmacOpts(f) == { None, Some(EmptyHmac), Some(hmac_new(LIVE_KEY, f)),
                 Some(hmac_new(WRONG_KEY, f)), Some(hmac_new(LIVE_KEY, Tampered(f))) }
\* a request body: JSON object {hmac, ...fields}, or bytes that are not JSON
BadBody == [json |-> FALSE, hmac |-> None, fields |-> EmptyFields]
Payloads ==
    { [json |-> TRUE, hmac |-> None, fields |-> f] : f \in IdentityFields \cup AmountFields }
    \cup UNION { { [json |-> TRUE, hmac |-> h, fields |-> f] : h \in HmacOpts(f) } :
                   f \in GateFields }
    \cup { BadBody }
NoReq == [json |-> FALSE, hmac |-> None, fields |-> EmptyFields]

\* -------------------------------------------------------------------- state
VARIABLES
    merchant_key,        \* OXAPAY_MERCHANT_KEY as configured
    host_configured,     \* OXAPAY_WEBHOOK_HOST is not the placeholder
    started,             \* start_oxapay_webhook has been called
    serverUp,            \* the aiohttp site is listening
    bot_ref,             \* _bot_ref is set
    processed_orders,    \* _processed_orders
    user_wallets,        \* bot.user_wallets: loaded user -> coin -> balance
    user_stats,          \* bot.user_stats: loaded user -> stats record
    delivered,           \* number of webhook requests received so far
    pc,                  \* webhook task -> position in _oxapay_webhook
    cur,                 \* the webhook task running on the event loop, 0: none
    req,                 \* the parsed request body of the running task
    loc,                 \* webhook task -> its local variables
    resp,                \* webhook task -> HTTP response sent
    log,                 \* webhook task -> its credits and notifications, in order
    now,                 \* the clock, unix seconds
    conv,                \* ConversationHandler state per (user, chat)
    user_data,           \* context.user_data per user
    flow_busy,           \* the create_invoice call the flow awaits, or None
    requests,            \* create_invoice requests sent, in order
    invoices             \* invoices the processor created

hookvars == <<merchant_key, host_configured, started, serverUp, bot_ref, processed_orders,
              user_wallets, user_stats, delivered, pc, cur, req, loc, resp, log>>

flowvars == <<now, conv, user_data, flow_busy, requests, invoices>>
vars == <<hookvars, flowvars>>

Handlers == 1..MaxDeliveries
NoLoc == [order_id |-> <<>>, dedup_key |-> <<>>, amount_usd |-> 0, paid_coin |-> <<>>,
          pay_amount |-> 0, telegram_id |-> 0]

\* ------------------------------------------------- _oxapay_webhook, pure parts
get(opt, default) == IF IsNone(opt) THEN default ELSE Val(opt)

\* mutant: the digest is checked for the key only, not for the body
_verify_signature_key_only(raw_body, received_hmac, key) ==
    received_hmac.key = key

_verify_signature(raw_body, received_hmac, key) ==
    hmac_new(key, raw_body) = received_hmac

\* mutant: a body without a signature is refused
signature_required(data, key) ==
    LET received_hmac == get(data.hmac, EmptyHmac)
    IN  received_hmac # EmptyHmac /\ _verify_signature(data.fields, received_hmac, key)
\* lines 242-248: TRUE when the handler goes on after the signature check
signature_passes(data, key) ==
    LET received_hmac == get(data.hmac, EmptyHmac)
    IN  IF received_hmac # EmptyHmac
        THEN _verify_signature(data.fields, received_hmac, key)
        ELSE TRUE

AcceptedStatuses == { <<"p","a","i","d">>, <<"c","o","n","f","i","r","m","e","d">>,
                      <<"c","o","m","p","l","e","t","e","d">> }
\* lines 251-252
status_of(data) == lower(get(data.fields.status, <<>>))
\* mutant: a list of refused statuses instead of a list of accepted ones
status_accepted_unless_refused(data) ==
    status_of(data) \notin { <<"e","x","p","i","r","e","d">>, <<"f","a","i","l","e","d">> }
status_accepted(data) == status_of(data) \in AcceptedStatuses

\* mutant: pay_amount is looked up before payAmount
extract_alt_name_first(data) ==
    LET f == data.fields
        amount_usd == get(f.amount, 0)
        raw_pay == IF IsNone(f.pay_amount) THEN f.payAmount ELSE f.pay_amount
    IN  [order_id |-> get(f.orderId, <<>>),
         track_id |-> get(f.trackId, <<>>),
         amount_usd |-> amount_usd,
         paid_coin |-> upper(get(f.currency, USDT)),
         pay_amount |-> IF IsNone(raw_pay) THEN amount_usd ELSE Val(raw_pay)]
\* mutant: the USD amount of the invoice is credited, the paid amount only
\* when the USD amount is missing
extract_usd_first(data) ==
    LET f == data.fields
        raw_pay == IF IsNone(f.payAmount) THEN f.pay_amount ELSE f.payAmount
    IN  [order_id |-> get(f.orderId, <<>>),
         track_id |-> get(f.trackId, <<>>),
         amount_usd |-> get(f.amount, 0),
         paid_coin |-> upper(get(f.currency, USDT)),
         pay_amount |-> IF ~IsNone(f.amount) THEN Val(f.amount)
                        ELSE IF IsNone(raw_pay) THEN 0 ELSE Val(raw_pay)]

\* lines 257-266
extract(data) ==
    LET f == data.fields
        amount_usd == get(f.amount, 0)
        raw_pay == IF IsNone(f.payAmount) THEN f.pay_amount ELSE f.payAmount
    IN  [order_id |-> get(f.orderId, <<>>),
         track_id |-> get(f.trackId, <<>>),
         amount_usd |-> amount_usd,
         paid_coin |-> upper(get(f.currency, USDT)),
         pay_amount |-> IF IsNone(raw_pay) THEN amount_usd ELSE Val(raw_pay)]

\* mutant: the key is the user part of the order reference
dedup_key_of_user(order_id, track_id) ==
    IF order_id # <<>> THEN split_first(order_id) ELSE track_id
\* line 269
dedup_key_of(order_id, track_id) == IF order_id # <<>> THEN order_id ELSE track_id
\* line 270
is_duplicate(key, processed) == key \in processed
\* mutant: the key is never recorded
add_processed_forgets(processed, key) == processed
\* mutant: the set keeps only the latest key
add_processed_keeps_latest(processed, key) == {key}
\* line 273
add_processed(processed, key) == processed \cup {key}
\* line 275
amount_rejected(pay_amount) == pay_amount <= 0
\* lines 280-284: the telegram id in the order reference, None when unrecognised
resolve_user(order_id) ==
    LET tg_str == IF has_underscore(order_id) THEN split_first(order_id) ELSE <<>>
    IN  IF isdigit(tg_str) THEN Some(int(tg_str)) ELSE None

\* ------------------------------------------------------------ collaborators
\* bot.load_user_data_if_missing
load_user_wallets(wallets, u) ==
    IF u \notin DOMAIN wallets /\ u \in DiskUsers THEN wallets @@ (u :> NewWallet) ELSE wallets
load_user_stats(stats, u) ==
    IF u \notin DOMAIN stats /\ u \in DiskUsers THEN stats @@ (u :> NewStats(u)) ELSE stats
\* bot.credit_wallet_crypto
credit_wallet_crypto(wallets, user_id, amount, coin) ==
    [wallets EXCEPT ![user_id][coin] = @ + amount]

\* _credit, lines 93-110: unwagered-deposit tracking and referral commission
commission_of(amount) == (amount * 5) \div 1000
credit_stats(stats, user_id, amount, coin) ==
    IF user_id \in DOMAIN stats
    THEN LET live == LIVE_PRICES(coin)
             price == IF IsNone(live) \/ Val(live) <= 0 THEN 1 ELSE Val(live)
             amount_usd == amount * price
             s1 == [stats EXCEPT ![user_id].unwagered_deposit = @ + amount_usd]
             referrer_id == s1[user_id].referrer_id
         IN  IF referrer_id # 0 /\ referrer_id \in DOMAIN s1
             THEN [s1 EXCEPT ![referrer_id].commissions[coin] = @ + commission_of(amount)]
             ELSE s1
    ELSE stats

Logged(h, event) == [log EXCEPT ![h] = Append(@, event)]
Event(ev, h, user, coin, amount, key) ==
    [ev |-> ev, h |-> h, user |-> user, coin |-> coin, amount |-> amount, key |-> key]

\* ----------------------------------------------------- start_oxapay_webhook
\* lines 327-362
StartWebhook ==
    /\ ~started
    /\ started' = TRUE
    /\ IF merchant_key = <<>> \/ merchant_key = SANDBOX \/ ~host_configured
       THEN UNCHANGED <<bot_ref, serverUp>>
       ELSE bot_ref' = TRUE /\ serverUp' = TRUE
    /\ UNCHANGED <<merchant_key, host_configured, processed_orders, user_wallets, user_stats,
                   delivered, pc, cur, req, loc, resp, log, flowvars>>

\* ------------------------------------------------------------ _oxapay_webhook
Goto(h, where) == pc' = [pc EXCEPT ![h] = where]
Running(h, at) == cur = h /\ pc[h] = at
\* what the webhook handler never writes
Outside == <<merchant_key, host_configured, started, serverUp, bot_ref, flowvars>>
Wallets == <<user_wallets, user_stats>>

\* a request arrives and its handler task starts; line 237 awaits the body
Deliver(h) ==
    /\ serverUp
    /\ pc[h] = "idle"
    /\ h = delivered + 1
    /\ delivered' = h
    /\ Goto(h, "read")
    /\ UNCHANGED <<Outside, Wallets, processed_orders, cur, req, loc, resp, log>>

\* lines 237-239: the body has arrived, the task takes the loop and parses it
ReadBody(h, body) ==
    /\ cur = 0
    /\ pc[h] = "read"
    /\ cur' = h
    /\ req' = body
    /\ Goto(h, IF body.json THEN "signature" ELSE "except")
    /\ UNCHANGED <<Outside, Wallets, processed_orders, delivered, loc, resp, log>>

\* lines 241-248
CheckSignature(h) ==
    /\ Running(h, "signature")
    /\ Goto(h, IF signature_passes(req, merchant_key) THEN "status" ELSE "return")
    /\ UNCHANGED <<Outside, Wallets, processed_orders, delivered, cur, req, loc, resp, log>>

\* mutant: the key is recorded before the status is looked at
CheckStatus_records_key(h) ==
    /\ Running(h, "status")
    /\ LET e == extract(req)
       IN  /\ processed_orders' =
                 add_processed(processed_orders, dedup_key_of(e.order_id, e.track_id))
           /\ IF status_accepted(req)
              THEN /\ loc' = [loc EXCEPT ![h] =
                                [order_id |-> e.order_id,
                                 dedup_key |-> dedup_key_of(e.order_id, e.track_id),
                                 amount_usd |-> e.amount_usd, paid_coin |-> e.paid_coin,
                                 pay_amount |-> e.pay_amount, telegram_id |-> 0]]
                   /\ Goto(h, "amount")
              ELSE Goto(h, "return") /\ UNCHANGED loc
    /\ UNCHANGED <<Outside, Wallets, delivered, cur, req, resp, log>>

\* lines 250-266
CheckStatus(h) ==
    /\ Running(h, "status")
    /\ IF status_accepted(req)
       THEN LET e == extract(req)
            IN  /\ loc' = [loc EXCEPT ![h] =
                            [order_id |-> e.order_id,
                             dedup_key |-> dedup_key_of(e.order_id, e.track_id),
                             amount_usd |-> e.amount_usd, paid_coin |-> e.paid_coin,
                             pay_amount |-> e.pay_amount, telegram_id |-> 0]]
                /\ Goto(h, "dedup")
       ELSE Goto(h, "return") /\ UNCHANGED loc
    /\ UNCHANGED <<Outside, Wallets, processed_orders, delivered, cur, req, resp, log>>

\* lines 269-272
CheckDuplicate(h) ==
    /\ Running(h, "dedup")
    /\ Goto(h, IF is_duplicate(loc[h].dedup_key, processed_orders) THEN "return" ELSE "insert")
    /\ UNCHANGED <<Outside, Wallets, processed_orders, delivered, cur, req, loc, resp, log>>

\* line 273
InsertKey(h) ==
    /\ Running(h, "insert")
    /\ processed_orders' = add_processed(processed_orders, loc[h].dedup_key)
    /\ Goto(h, "amount")
    /\ UNCHANGED <<Outside, Wallets, delivered, cur, req, loc, resp, log>>

\* lines 275-284
Resolve(h) ==
    /\ Running(h, "amount")
    /\ LET user == resolve_user(loc[h].order_id)
       IN  IF amount_rejected(loc[h].pay_amount) \/ IsNone(user)
           THEN Goto(h, "return") /\ UNCHANGED loc
           ELSE /\ loc' = [loc EXCEPT ![h].telegram_id = Val(user)]
                /\ Goto(h, "load")
    /\ UNCHANGED <<Outside, Wallets, processed_orders, delivered, cur, req, resp, log>>

\* lines 287-288
LoadUser(h) ==
    /\ Running(h, "load")
    /\ user_wallets' = load_user_wallets(user_wallets, loc[h].telegram_id)
    /\ user_stats' = load_user_stats(user_stats, loc[h].telegram_id)
    /\ Goto(h, "credit")
    /\ UNCHANGED <<Outside, processed_orders, delivered, cur, req, loc, resp, log>>

\* line 291
wallet_known(wallets, telegram_id) == telegram_id \in DOMAIN wallets
\* what a collaborator called by _credit may do: return, or raise from
\* credit_wallet_crypto (nothing applied), or raise from save_user_data
\* (the in-memory credit is applied)
CreditOutcomes == {"ok", "raise_credit", "raise_save"}

\* lines 290-298, with _credit (lines 89-111)
Credit(h, outcome) ==
    /\ Running(h, "credit")
    /\ IF wallet_known(user_wallets, loc[h].telegram_id)
       THEN IF outcome = "raise_credit"
            THEN Goto(h, "except") /\ UNCHANGED <<Wallets, log>>
            ELSE /\ user_wallets' = credit_wallet_crypto(user_wallets, loc[h].telegram_id,
                                                         loc[h].pay_amount, loc[h].paid_coin)
                 /\ user_stats' = credit_stats(user_stats, loc[h].telegram_id,
                                               loc[h].pay_amount, loc[h].paid_coin)
                 /\ log' = Logged(h, Event("credit", h, loc[h].telegram_id, loc[h].paid_coin,
                                             loc[h].pay_amount, loc[h].dedup_key))
                 /\ Goto(h, IF outcome = "ok" THEN "notify" ELSE "except")
       ELSE /\ outcome = "ok"
            /\ Goto(h, "notify")
            /\ UNCHANGED <<Wallets, log>>
    /\ UNCHANGED <<Outside, processed_orders, delivered, cur, req, loc, resp>>

\* lines 300-313: the notification is sent and the task awaits the result;
\* of the locals only telegram_id is read after the await (line 315)
Notify(h) ==
    /\ Running(h, "notify")
    /\ IF bot_ref
       THEN /\ log' = Logged(h, Event("notify", h, loc[h].telegram_id, loc[h].paid_coin,
                                        loc[h].pay_amount, loc[h].dedup_key))
            /\ Goto(h, "sending")
            /\ cur' = 0
            /\ req' = NoReq
            /\ loc' = [loc EXCEPT ![h] = [NoLoc EXCEPT !.telegram_id = loc[h].telegram_id]]
       ELSE Goto(h, "return") /\ UNCHANGED <<log, cur, req, loc>>
    /\ UNCHANGED <<Outside, Wallets, processed_orders, delivered, resp>>

\* mutant: a failed notification takes the credit back
notify_failed_rolls_back(wallets, h) ==
    IF Len(log[h]) > 0 /\ log[h][1].ev = "credit"
    THEN [wallets EXCEPT ![log[h][1].user][log[h][1].coin] = @ - log[h][1].amount]
    ELSE wallets
\* lines 314-315: the except clause logs the failure; the wallets stay as they are
notify_failed_wallets(wallets, h) == wallets

\* lines 305-315: send_message returns or raises; a raise is caught and logged
SendDone(h, sent) ==
    /\ cur = 0
    /\ pc[h] = "sending"
    /\ cur' = h
    /\ log' = IF sent THEN log
              ELSE Logged(h, Event("notify_failed", h, loc[h].telegram_id, <<>>, 0, <<>>))
    /\ user_wallets' = IF sent THEN user_wallets ELSE notify_failed_wallets(user_wallets, h)
    /\ Goto(h, "return")
    /\ UNCHANGED <<Outside, user_stats, processed_orders, delivered, req, loc, resp>>

\* line 234
ok == [text |-> "ok", status |-> 200]
NoResp == [text |-> "", status |-> 0]
\* mutant: the exception escapes and aiohttp answers 500
exception_escapes == [text |-> "500 Internal Server Error", status |-> 500]
\* lines 317-320: the exception is caught and logged, the handler returns ok
exception_response == ok

Finish(h, response) ==
    /\ resp' = [resp EXCEPT ![h] = response]
    /\ Goto(h, "done")
    /\ cur' = 0
    /\ req' = NoReq
    /\ loc' = [loc EXCEPT ![h] = NoLoc]
    /\ UNCHANGED <<Outside, Wallets, processed_orders, delivered>>

\* lines 317-320
Except(h) ==
    /\ Running(h, "except")
    /\ log' = Logged(h, Event("error", h, loc[h].telegram_id, <<>>, 0, loc[h].dedup_key))
    /\ Finish(h, exception_response)

\* the return ok of lines 248, 254, 272, 277, 283, 320
Return(h) == Running(h, "return") /\ UNCHANGED log /\ Finish(h, ok)

\* ------------------------------------------------------- conversation flow
\* Updates are handled one at a time; a handler runs to its end without giving
\* up the loop, except oxapay_currency_selected, which awaits create_invoice.
\* A float of the flow is a whole number of dollars or NaN.
_STATE_AMOUNT == "oxapay_amount_state"
_STATE_CURRENCY == "oxapay_currency_state"
_STATE_CUSTOM == "oxapay_custom_amount_state"
END == "END"                       \* ConversationHandler.END

FlowUsers == {1, 12}
Chats == {1, 2}
preset_amounts == {10, 100}        \* two of the buttons of line 379
\* the texts a user types in the custom-amount state
Texts == { <<"3">>, <<"7">>, <<"a","b","c">>, <<"1",",","0">>, <<"-","7">>, <<"n","a","n">> }
\* the coins of the oxapay_cur_ callback data
CallbackCoins == { <<"b","t","c">>, <<"D","O","G","E">> }

NoSession == [oxapay_usd_amount |-> None, oxapay_awaiting_custom |-> None,
              oxapay_last_order |-> None, oxapay_last_coin |-> None]

\* text.replace(",", "")
RECURSIVE remove_commas(_)
remove_commas(s) ==
    IF Len(s) = 0 THEN <<>>
    ELSE (IF Head(s) = "," THEN <<>> ELSE <<Head(s)>>) \o remove_commas(Tail(s))
Float(n) == [nan |-> FALSE, v |-> n]
NaN == [nan |-> TRUE, v |-> 0]
\* a < b on floats: every comparison with NaN is false
float_lt(a, b) == ~a.nan /\ ~b.nan /\ a.v < b.v
\* float(...) of lines 444 and 475: None is a ValueError; digits, signed
\* digits and nan (in any case) are among the texts float() accepts
parse_float(s) ==
    IF isdigit(s) THEN Some(Float(int(s)))
    ELSE IF Len(s) > 1 /\ Head(s) = "-" /\ isdigit(Tail(s)) THEN Some(Float(0 - int(Tail(s))))
    ELSE IF lower(s) = <<"n","a","n">> THEN Some(NaN)
    ELSE None
\* lines 442-447: the amount accepted, None when the input is rejected
custom_amount(text) ==
    LET amount == parse_float(remove_commas(text))
    IN  IF IsNone(amount) \/ float_lt(Val(amount), Float(OXAPAY_MIN_DEPOSIT_USD))
        THEN None ELSE amount
\* mutant: the timestamp comes first in the order reference
order_id_for_timestamp_first(user_id, timestamp) ==
    fmt_int(timestamp) \o <<"_">> \o fmt_int(user_id)
\* line 561
order_id_for(user_id, timestamp) == fmt_int(user_id) \o <<"_">> \o fmt_int(timestamp)

Idle == cur = 0 /\ IsNone(flow_busy)
SetConv(u, c, state) == conv' = [conv EXCEPT ![u][c] = state]
\* mutant: back and cancel keep the chosen amount
pop_flag_only(data) == [data EXCEPT !.oxapay_awaiting_custom = None]
\* lines 634-635 and 645-646
pop_amount(data) == [data EXCEPT !.oxapay_usd_amount = None, !.oxapay_awaiting_custom = None]

\* lines 371-410; with allow_reentry the entry point is taken in any state
oxapay_entry(u, c, owns) ==
    /\ Idle
    /\ SetConv(u, c, IF owns THEN _STATE_AMOUNT ELSE END)
    /\ UNCHANGED <<hookvars, now, user_data, flow_busy, requests, invoices>>

\* lines 415-437
oxapay_custom_amount_prompt(u, c, owns) ==
    /\ Idle
    /\ conv[u][c] = _STATE_AMOUNT
    /\ IF owns
       THEN /\ user_data' = [user_data EXCEPT ![u].oxapay_awaiting_custom = Some(TRUE)]
            /\ SetConv(u, c, _STATE_CUSTOM)
       ELSE SetConv(u, c, END) /\ UNCHANGED user_data
    /\ UNCHANGED <<hookvars, now, flow_busy, requests, invoices>>

\* lines 440-460
oxapay_receive_custom_amount(u, c, text) ==
    /\ Idle
    /\ conv[u][c] = _STATE_CUSTOM
    /\ LET amount == custom_amount(text)
       IN  IF IsNone(amount)
           THEN UNCHANGED <<conv, user_data>>
           ELSE /\ user_data' = [user_data EXCEPT ![u].oxapay_usd_amount = amount,
                                                  ![u].oxapay_awaiting_custom = None]
                /\ SetConv(u, c, _STATE_CURRENCY)
    /\ UNCHANGED <<hookvars, now, flow_busy, requests, invoices>>

\* lines 465-481
oxapay_preset_amount(u, c, amt, owns) ==
    /\ Idle
    /\ conv[u][c] = _STATE_AMOUNT
    /\ IF owns
       THEN /\ user_data' = [user_data EXCEPT ![u].oxapay_usd_amount = Some(Float(amt))]
            /\ SetConv(u, c, _STATE_CURRENCY)
       ELSE SetConv(u, c, END) /\ UNCHANGED user_data
    /\ UNCHANGED <<hookvars, now, flow_busy, requests, invoices>>

\* bot.SUPPORTED_CRYPTOS: the configured list must be a subset of the
\* wallet-supported coins; DOGE is a wallet coin the processor list lacks
DOGE == <<"D","O","G","E">>
SUPPORTED_CRYPTOS == OXAPAY_SUPPORTED_CURRENCIES \cup {DOGE}
\* line 492: the coins _show_currency_selector offers
available == { c \in OXAPAY_SUPPORTED_CURRENCIES : c \in SUPPORTED_CRYPTOS }
\* mutant: the callback's coin is not checked
unsupported_currency_never(coin) == FALSE
\* line 550
unsupported_currency(coin) == coin \notin OXAPAY_SUPPORTED_CURRENCIES

\* lines 538-569: up to the await of create_invoice
oxapay_currency_selected(u, c, data_coin, owns) ==
    /\ Idle
    /\ conv[u][c] = _STATE_CURRENCY
    /\ IF ~owns
       THEN SetConv(u, c, END) /\ UNCHANGED <<flow_busy, requests>>
       ELSE LET coin == upper(data_coin)
                amount_usd == get(user_data[u].oxapay_usd_amount, Float(0))
                call == [user |-> u, chat |-> c, coin |-> coin, amount_usd |-> amount_usd,
                         order_id |-> order_id_for(u, now)]
            IN  IF unsupported_currency(coin)
                THEN UNCHANGED <<conv, flow_busy, requests>>
                ELSE /\ Len(requests) < MaxInvoices
                     /\ flow_busy' = Some(call)
                     /\ requests' = Append(requests, call)
                     /\ UNCHANGED conv
    /\ UNCHANGED <<hookvars, now, user_data, invoices>>

\* OxaPayClient.create_invoice, lines 184-205, as seen by its caller: None, or
\* the response, with or without a payment link
InvoiceResults == {"none", "no_link", "link"}
\* what the one POST of create_invoice may meet
NetOutcomes == {"timeout", "client_error", "exception", "http_error", "api_error",
                "result_100", "result_100_link"}
\* lines 184-205: one request, no retry
create_invoice(net) ==
    IF net = "result_100_link" THEN "link"
    ELSE IF net = "result_100" THEN "no_link"
    ELSE "none"

\* mutant: the order is remembered whenever a response came back
invoice_result_remembers_order(result) ==
    /\ cur = 0
    /\ ~IsNone(flow_busy)
    /\ LET call == Val(flow_busy)
       IN  /\ invoices' = IF result = "none" THEN invoices ELSE invoices \cup {call}
           /\ user_data' = IF result # "none"
                           THEN [user_data EXCEPT
                                    ![call.user].oxapay_last_order = Some(call.order_id),
                                    ![call.user].oxapay_last_coin = Some(call.coin)]
                           ELSE user_data
           /\ SetConv(call.user, call.chat, END)
    /\ flow_busy' = None
    /\ UNCHANGED <<hookvars, now, requests>>
\* lines 571-625
invoice_result(result) ==
    /\ cur = 0
    /\ ~IsNone(flow_busy)
    /\ LET call == Val(flow_busy)
       IN  /\ invoices' = IF result = "none" THEN invoices ELSE invoices \cup {call}
           /\ user_data' = IF result = "link"
                           THEN [user_data EXCEPT
                                    ![call.user].oxapay_last_order = Some(call.order_id),
                                    ![call.user].oxapay_last_coin = Some(call.coin)]
                           ELSE user_data
           /\ SetConv(call.user, call.chat, END)
    /\ flow_busy' = None
    /\ UNCHANGED <<hookvars, now, requests>>

\* lines 630-636, reached from each of the three states
oxapay_back_to_amounts(u, c, owns) ==
    /\ Idle
    /\ conv[u][c] \in {_STATE_AMOUNT, _STATE_CUSTOM, _STATE_CURRENCY}
    /\ user_data' = [user_data EXCEPT ![u] = pop_amount(@)]
    /\ SetConv(u, c, IF owns THEN _STATE_AMOUNT ELSE END)
    /\ UNCHANGED <<hookvars, now, flow_busy, requests, invoices>>

\* mutant: cancelling also voids the order the session remembers
oxapay_cancel_voids_order(u, c) ==
    /\ Idle
    /\ conv[u][c] # END
    /\ user_data' = [user_data EXCEPT ![u] = pop_amount(@)]
    /\ SetConv(u, c, END)
    /\ processed_orders' = processed_orders \cup
            (IF IsNone(user_data[u].oxapay_last_order) THEN {}
             ELSE {Val(user_data[u].oxapay_last_order)})
    /\ UNCHANGED <<merchant_key, host_configured, started, serverUp, bot_ref, user_wallets,
                   user_stats, delivered, pc, cur, req, loc, resp, log>>
    /\ UNCHANGED <<now, flow_busy, requests, invoices>>
\* lines 641-647, the fallback of every state
oxapay_cancel(u, c) ==
    /\ Idle
    /\ conv[u][c] # END
    /\ user_data' = [user_data EXCEPT ![u] = pop_amount(@)]
    /\ SetConv(u, c, END)
    /\ UNCHANGED <<hookvars, now, flow_busy, requests, invoices>>

\* line 681: conversation_timeout ends the conversation; no handler runs
conversation_timeout(u, c) ==
    /\ Idle
    /\ conv[u][c] # END
    /\ SetConv(u, c, END)
    /\ UNCHANGED <<hookvars, now, user_data, flow_busy, requests, invoices>>

Tick ==
    /\ now < MaxClock
    /\ now' = now + 1
    /\ UNCHANGED <<hookvars, conv, user_data, flow_busy, requests, invoices>>

FlowInit ==
    /\ now = 5
    /\ conv = [u \in FlowUsers |-> [c \in Chats |-> END]]
    /\ user_data = [u \in FlowUsers |-> NoSession]
    /\ flow_busy = None
    /\ requests = <<>>
    /\ invoices = {}

FlowStep(u, c) ==
    \/ \E owns \in BOOLEAN : oxapay_entry(u, c, owns)
    \/ \E owns \in BOOLEAN : oxapay_custom_amount_prompt(u, c, owns)
    \/ \E text \in Texts : oxapay_receive_custom_amount(u, c, text)
    \/ \E amt \in preset_amounts, owns \in BOOLEAN : oxapay_preset_amount(u, c, amt, owns)
    \/ \E coin \in CallbackCoins, owns \in BOOLEAN : oxapay_currency_selected(u, c, coin, owns)
    \/ \E owns \in BOOLEAN : oxapay_back_to_amounts(u, c, owns)
    \/ oxapay_cancel(u, c)
    \/ conversation_timeout(u, c)

\* -------------------------------------------------------------- webhook spec
HookInit ==
    /\ merchant_key \in {<<>>, SANDBOX, LIVE_KEY}
    /\ host_configured \in BOOLEAN
    /\ started = FALSE
    /\ serverUp = FALSE
    /\ bot_ref = FALSE
    /\ processed_orders = {}
    /\ user_wallets = [u \in MemoryUsers |-> NewWallet]
    /\ user_stats = [u \in MemoryUsers |-> NewStats(u)]
    /\ delivered = 0
    /\ pc = [h \in Handlers |-> "idle"]
    /\ cur = 0
    /\ req = NoReq
    /\ loc = [h \in Handlers |-> NoLoc]
    /\ resp = [h \in Handlers |-> NoResp]
    /\ log = [h \in Handlers |-> <<>>]
    /\ FlowInit

HookStep(h) ==
    \/ Deliver(h)
    \/ \E body \in Payloads : ReadBody(h, body)
    \/ CheckSignature(h)
    \/ CheckStatus(h)
    \/ CheckDuplicate(h)
    \/ InsertKey(h)
    \/ Resolve(h)
    \/ LoadUser(h)
    \/ \E outcome \in CreditOutcomes : Credit(h, outcome)
    \/ Notify(h)
    \/ \E sent \in BOOLEAN : SendDone(h, sent)
    \/ Except(h)
    \/ Return(h)

HookNext == StartWebhook \/ \E h \in Handlers : HookStep(h)

HookSpec == HookInit /\ [][HookNext]_vars

\* ----------------------------------------------------------- the whole system
\* the bodies the processor sends for the invoices it created
InvoiceBodies ==
    { [json |-> TRUE, hmac |-> h, fields |-> f] :
        h \in {None},
        f \in { [Base EXCEPT !.status = st, !.orderId = Some(i.order_id),
                             !.currency = Some(lower(i.coin))] :
                  st \in { Some(<<"p","a","i","d">>), Some(<<"w","a","i","t","i","n","g">>) },
                  i \in invoices } }

Init == HookInit
\* the whole system is explored for one user of the flow, in one chat
SpecUsers == {12}
SpecChats == {1}

Step(h) ==
    \/ Deliver(h)
    \/ \E body \in InvoiceBodies : ReadBody(h, body)
    \/ CheckSignature(h)
    \/ CheckStatus(h)
    \/ CheckDuplicate(h)
    \/ InsertKey(h)
    \/ Resolve(h)
    \/ LoadUser(h)
    \/ \E outcome \in CreditOutcomes : Credit(h, outcome)
    \/ Notify(h)
    \/ \E sent \in BOOLEAN : SendDone(h, sent)
    \/ Except(h)
    \/ Return(h)

Next ==
    \/ StartWebhook
    \/ \E h \in 1..SpecDeliveries : Step(h)
    \/ \E u \in SpecUsers, c \in SpecChats : FlowStep(u, c)
    \/ \E net \in NetOutcomes : invoice_result(create_invoice(net))
    \/ Tick

Spec == Init /\ [][Next]_vars

\* ----------------------------------------------------------------- flow spec
\* the conversation alone: one user, in two chats
FlowNext ==
    \/ \E u \in SpecUsers, c \in Chats : FlowStep(u, c)
    \/ \E net \in NetOutcomes : invoice_result(create_invoice(net))
    \/ Tick

\* the configuration as shipped (lines 55-56); the flow reads neither value
FlowSpecInit == Init /\ merchant_key = SANDBOX /\ host_configured = FALSE

FlowSpec == FlowSpecInit /\ [][FlowNext]_vars

\* ================================================================== claims
\* the credits of the log, each named by its task and position
Credits ==
    UNION { { <<h, i>> : i \in { j \in 1..Len(log[h]) : log[h][j].ev = "credit" } } :
             h \in Handlers }
CreditKey(x) == log[x[1]][x[2]].key
HasEvent(h, ev) == \E i \in 1..Len(log[h]) : log[h][i].ev = ev
\* the hmac field is non-empty and is not the HMAC of the body without it
SignatureMismatch(data) ==
    /\ data.json
    /\ ~IsNone(data.hmac)
    /\ Val(data.hmac) # EmptyHmac
    /\ Val(data.hmac) # hmac_new(merchant_key, data.fields)
\* the body would be credited if its signature were accepted
Creditable(data) ==
    /\ data.json
    /\ lower(get(data.fields.status, <<>>)) = <<"p","a","i","d">>
    /\ data.fields.orderId = Some(<<"1","_","5">>)
    /\ data.fields.payAmount = Some(200)

\* C1: deliveries that carry the same dedup key, however many and however
\* their handlers interleave at their awaits, lead to at most one call of the
\* wallet credit for that key.
C1_AtMostOneCreditPerKey ==
    \A x \in Credits, y \in Credits : CreditKey(x) = CreditKey(y) => x = y

\* C1 witness: a second delivery of a credited key is found a duplicate while
\* the first handler is still suspended in its notification.
C1_Witness ==
    \E h1 \in Handlers, h2 \in Handlers :
        /\ h1 # h2
        /\ pc[h1] = "sending"
        /\ <<h1, 1>> \in Credits
        /\ Running(h2, "return")
        /\ status_accepted(req)
        /\ loc[h2].dedup_key = CreditKey(<<h1, 1>>)
        /\ log[h2] = <<>>

\* C2: a task that handles a body whose non-empty hmac does not match never
\* credits a wallet, changes no statistics, sends nothing and leaves the
\* processed-order set as it was.
C2_BadSignatureChangesNothing ==
    [][\A h \in Handlers :
          (cur = h /\ SignatureMismatch(req)) =>
              /\ processed_orders' = processed_orders
              /\ user_wallets' = user_wallets
              /\ user_stats' = user_stats
              /\ log' = log]_vars

\* C2 witness: an otherwise creditable body was rejected for its signature and
\* its key is still free.
C2_Witness ==
    \E h \in Handlers :
        /\ Running(h, "return")
        /\ SignatureMismatch(req)
        /\ Creditable(req)
        /\ Val(req.hmac).key = merchant_key
        /\ dedup_key_of(extract(req).order_id, extract(req).track_id) \notin processed_orders

\* C3: a task that handles a body whose status, lower-cased as the handler
\* reads it, is none of paid, confirmed, completed credits no wallet, pays no
\* commission and leaves every unwagered deposit as it was.
C3_UnconfirmedStatusNoCredit ==
    [][\A h \in Handlers :
          (cur = h /\ req.json
             /\ lower(get(req.fields.status, <<>>)) \notin
                  { <<"p","a","i","d">>, <<"c","o","n","f","i","r","m","e","d">>,
                    <<"c","o","m","p","l","e","t","e","d">> }) =>
              /\ user_wallets' = user_wallets
              /\ user_stats' = user_stats
              /\ log' = log]_vars

\* C3 witness: a body with status waiting, otherwise creditable, was dropped.
C3_Witness ==
    \E h \in Handlers :
        /\ Running(h, "return")
        /\ signature_passes(req, merchant_key)
        /\ req.fields.status = Some(<<"w","a","i","t","i","n","g">>)
        /\ req.fields.orderId = Some(<<"1","_","5">>)
        /\ req.fields.payAmount = Some(200)

\* the pay amount of a body: payAmount, else pay_amount, else amount, else 0
PayOf(data) ==
    IF ~IsNone(data.fields.payAmount) THEN Val(data.fields.payAmount)
    ELSE IF ~IsNone(data.fields.pay_amount) THEN Val(data.fields.pay_amount)
    ELSE IF ~IsNone(data.fields.amount) THEN Val(data.fields.amount)
    ELSE 0
StatusConfirmed(data) ==
    lower(get(data.fields.status, <<>>)) \in
        { <<"p","a","i","d">>, <<"c","o","n","f","i","r","m","e","d">>,
          <<"c","o","m","p","l","e","t","e","d">> }
\* the body in hand has an accepted status, a positive pay amount and an order
\* reference {user_id}_{timestamp} of a user who has a wallet
Eligible(data) ==
    /\ data.json
    /\ ~SignatureMismatch(data)
    /\ StatusConfirmed(data)
    /\ PayOf(data) > 0
    /\ ~IsNone(resolve_user(get(data.fields.orderId, <<>>)))
    /\ Val(resolve_user(get(data.fields.orderId, <<>>))) \in DOMAIN user_wallets
\* the one credit an eligible body stands for
CreditOf(h, data) ==
    Event("credit", h, Val(resolve_user(get(data.fields.orderId, <<>>))),
          upper(get(data.fields.currency, USDT)), PayOf(data), get(data.fields.orderId, <<>>))
RECURSIVE SumCredits(_, _, _)
SumCredits(S, u, coin) ==
    IF S = {} THEN 0
    ELSE LET x == CHOOSE y \in S : TRUE
             e == log[x[1]][x[2]]
         IN  (IF e.user = u /\ e.coin = coin THEN e.amount ELSE 0) + SumCredits(S \ {x}, u, coin)
\* every balance is the sum of the credits made to it
BalancesAreCredits ==
    \A u \in DOMAIN user_wallets, c \in Coins : user_wallets[u][c] = SumCredits(Credits, u, c)
Count(h, ev) == Cardinality({ i \in 1..Len(log[h]) : log[h][i].ev = ev })

\* C4: a delivery that passed the duplicate guard with an accepted status, a
\* positive pay amount and the order reference of a user with a wallet has
\* made, when the crediting calls have returned, exactly one credit, of
\* exactly the pay amount in the paid currency to the user of the order
\* reference (every balance is the sum of the credits made to it); exactly one
\* notification attempt to that user follows, and no notification comes
\* before the credit.
C4_CreditThenNotify ==
    /\ BalancesAreCredits
    /\ \A h \in Handlers :
        /\ (Running(h, "notify") /\ Eligible(req)) => log[h] = <<CreditOf(h, req)>>
        /\ Count(h, "credit") <= 1 /\ Count(h, "notify") <= 1
        /\ \A i \in 1..Len(log[h]), j \in 1..Len(log[h]) :
              (log[h][i].ev = "credit" /\ log[h][j].ev = "notify") => i < j
        /\ (Count(h, "credit") = 1 /\ Count(h, "error") = 0
              /\ pc[h] \in {"sending", "return", "done"}) =>
              /\ Count(h, "notify") = 1
              /\ log[h][2].ev = "notify"
              /\ log[h][2].user = log[h][1].user

\* C4 witness: the credit was made and its notification is on its way.
C4_Witness ==
    \E h \in Handlers :
        /\ pc[h] = "sending"
        /\ Len(log[h]) = 2
        /\ log[h][1] = Event("credit", h, 12, BTC, 200, <<"1","2","_","5">>)
        /\ log[h][2].ev = "notify"
        /\ user_wallets[12][BTC] = 200

InBlock == {"signature", "status", "dedup", "insert", "amount", "load", "credit", "notify",
            "except", "return"}

\* C5: every handling that ends has answered 200 "ok" and nothing else is ever
\* answered; a task that has started can always take its next step when the
\* loop is free, the server stays up and goes on accepting deliveries.
C5_AlwaysAnswersOk ==
    /\ \A h \in Handlers :
        /\ pc[h] = "done" => resp[h] = [text |-> "ok", status |-> 200]
        /\ pc[h] # "done" => resp[h] = NoResp
        /\ (pc[h] \notin {"idle", "done"} /\ cur \in {0, h}) => ENABLED HookStep(h)
    /\ cur # 0 => pc[cur] \in InBlock
    /\ delivered > 0 => serverUp
    /\ (serverUp /\ delivered < MaxDeliveries) => ENABLED Deliver(delivered + 1)

\* C5 witness: one handling ended in an exception of the crediting, another
\* credited and failed to notify; both were answered.
C5_Witness ==
    \E h1 \in Handlers, h2 \in Handlers :
        /\ pc[h1] = "done" /\ pc[h2] = "done"
        /\ Count(h1, "error") = 1
        /\ Count(h2, "credit") = 1 /\ Count(h2, "notify_failed") = 1
        /\ resp[h1].status = 200 /\ resp[h2].status = 200

\* the body in hand is rejected by a business rule
BusinessRejected(data) ==
    /\ data.json
    /\ ~SignatureMismatch(data)
    /\ \/ ~StatusConfirmed(data)
       \/ PayOf(data) <= 0
       \/ IsNone(resolve_user(get(data.fields.orderId, <<>>)))
       \/ Val(resolve_user(get(data.fields.orderId, <<>>))) \notin (DOMAIN user_wallets \cup DiskUsers)

\* C6 as claimed: a task whose body is rejected by a business rule moves no
\* money and sends no notification.
C6_RejectedNoMoneyNoNotice ==
    [][\A h \in Handlers :
          (cur = h /\ BusinessRejected(req)) =>
              /\ user_wallets' = user_wallets
              /\ user_stats' = user_stats
              /\ log'[h] = log[h]]_vars

\* C7 as claimed: whenever no handler is in the middle of its block, every key
\* of the processed-order set is the key of a credit that was made.
C7_ProcessedOnlyCredited ==
    cur = 0 => \A k \in processed_orders : \E x \in Credits : CreditKey(x) = k

Last(q) == q[Len(q)]
\* C8: a credit is made only by the running task and only for a key that is
\* already in the processed-order set; a task between the membership check and
\* the insertion holds the loop until it has inserted its key, which was not
\* in the set; and no step removes a key from the set.
C8_InsertBeforeCredit ==
    [][/\ processed_orders \subseteq processed_orders'
       /\ \A h \in Handlers :
            /\ (Len(log'[h]) > Len(log[h]) /\ Last(log'[h]).ev = "credit") =>
                  /\ cur = h
                  /\ loc[h].dedup_key \in processed_orders
                  /\ Last(log'[h]).key = loc[h].dedup_key
            /\ pc[h] = "insert" =>
                  /\ cur = h /\ cur' = h
                  /\ loc[h].dedup_key \notin processed_orders
                  /\ pc'[h] = "insert" \/ loc[h].dedup_key \in processed_orders']_vars

\* C8 witness: a second key was inserted and then credited.
C8_Witness ==
    \E h \in Handlers :
        /\ Running(h, "notify")
        /\ Count(h, "credit") = 1
        /\ Cardinality(processed_orders) = 2
        /\ loc[h].dedup_key \in processed_orders

\* what holds of a handler once its notification has failed
KeptAfterFailure ==
    \A h \in Handlers :
        Count(h, "notify_failed") = 1 =>
            /\ BalancesAreCredits
            /\ pc[h] \in {"return", "done"}
            /\ pc[h] = "done" => resp[h] = ok
            /\ \A i \in 1..Len(log[h]) :
                  log[h][i].ev = "credit" => log[h][i].key \in processed_orders

\* C9: the step in which a notification fails changes no balance, no
\* unwagered deposit, no commission and no key; afterwards the handler returns
\* and answers ok, the key of its credit is still recorded and every balance
\* is still the sum of the credits made.
C9_FailedNoticeKeepsCredit ==
    [][/\ \A h \in Handlers :
            (Count(h, "notify_failed") = 0 /\ Len(log'[h]) > Len(log[h])
               /\ Last(log'[h]).ev = "notify_failed") =>
                /\ user_wallets' = user_wallets
                /\ user_stats' = user_stats
                /\ processed_orders' = processed_orders
                /\ pc'[h] = "return"
       /\ KeptAfterFailure']_vars

\* C9 witness: the notification of a credit failed and the handler finished.
C9_Witness ==
    \E h \in Handlers :
        /\ pc[h] = "done"
        /\ Count(h, "credit") = 1 /\ Count(h, "notify_failed") = 1
        /\ user_wallets[log[h][1].user][log[h][1].coin] = log[h][1].amount
        /\ user_stats[log[h][1].user].unwagered_deposit > 0

\* the body in hand confirms the payment of invoice i
Confirms(data, i) ==
    /\ data.json
    /\ ~SignatureMismatch(data)
    /\ StatusConfirmed(data)
    /\ PayOf(data) > 0
    /\ data.fields.orderId = Some(i.order_id)
\* another task got past the duplicate guard with this key
HandledBefore(h, key) ==
    \E h2 \in Handlers \ {h} : \E j \in 1..Len(log[h2]) :
        log[h2][j].ev \in {"credit", "error"} /\ log[h2][j].key = key

\* C10: whatever the conversation has done since the invoice was created
\* (cancel, timeout, back, a new flow, in any interleaving), the handler of
\* the body confirming the invoice of a user with a wallet record credits
\* exactly the body's pay amount to the invoice's user; it does not only when
\* the key was handled before (a duplicate) or a crediting call raised.
C10_CreditedWhateverTheFlow ==
    \A h \in Handlers : \A i \in invoices :
        (cur = h /\ pc[h] \in {"notify", "except", "return"} /\ Confirms(req, i)
           /\ i.user \in DiskUsers \cup MemoryUsers) =>
            \/ /\ pc[h] = "notify"
               /\ log[h] = <<Event("credit", h, i.user, upper(get(req.fields.currency, USDT)),
                                   PayOf(req), i.order_id)>>
               /\ BalancesAreCredits
            \/ /\ pc[h] = "except"
               /\ Count(h, "notify") = 0
            \/ /\ pc[h] = "return"
               /\ log[h] = <<>>
               /\ HandledBefore(h, i.order_id)

\* C10 witness: the invoice was credited after its session was discarded and
\* while a new deposit flow was under way.
C10_Witness ==
    \E h \in Handlers : \E i \in invoices :
        /\ Running(h, "notify")
        /\ Confirms(req, i)
        /\ Count(h, "credit") = 1
        /\ conv[i.user][i.chat] = _STATE_AMOUNT
        /\ IsNone(user_data[i.user].oxapay_usd_amount)
        /\ IsNone(user_data[i.user].oxapay_last_order)

\* ------------------------------------------------------------- flow claims
\* the text, commas removed, is a decimal number of at least the minimum
IsAmount(text) ==
    isdigit(remove_commas(text)) /\ int(remove_commas(text)) >= OXAPAY_MIN_DEPOSIT_USD
AmountOf(text) == Float(int(remove_commas(text)))

\* C11: in the custom-amount input state, a text that is a number of at least
\* the minimum deposit sets the session's USD amount to that number and moves
\* the flow to currency selection; every other text keeps the flow in the
\* custom-amount input state and leaves the session's USD amount unchanged.
C11_CustomAmountGate ==
    [][\A u \in SpecUsers, c \in Chats, text \in Texts :
          oxapay_receive_custom_amount(u, c, text) =>
              IF IsAmount(text)
              THEN /\ user_data'[u].oxapay_usd_amount = Some(AmountOf(text))
                   /\ conv'[u][c] = _STATE_CURRENCY
              ELSE /\ conv'[u][c] = _STATE_CUSTOM
                   /\ user_data'[u].oxapay_usd_amount = user_data[u].oxapay_usd_amount]_vars

\* a callback of user u in chat c whose ownership check fails
NotOwnerStep(u, c) ==
    \/ oxapay_entry(u, c, FALSE)
    \/ oxapay_custom_amount_prompt(u, c, FALSE)
    \/ \E amt \in preset_amounts : oxapay_preset_amount(u, c, amt, FALSE)
    \/ \E coin \in CallbackCoins : oxapay_currency_selected(u, c, coin, FALSE)
    \/ oxapay_back_to_amounts(u, c, FALSE)

\* C12: a callback-driven transition (entry, preset amount, custom-amount
\* prompt, currency selected, back) whose ownership check fails ends the flow
\* and leaves every session field as it was before the action.
C12_NotOwnerChangesNothing ==
    [][\A u \in SpecUsers, c \in Chats :
          NotOwnerStep(u, c) => (conv'[u][c] = END /\ user_data' = user_data)]_vars

\* C13: while the flow of a user in one chat is in currency selection, no
\* action of the same user's flow in another chat changes the session's USD
\* amount, which is the amount the first chat's invoice is created for.
C13_ChatsDoNotShareAmount ==
    [][\A u \in SpecUsers, a \in Chats, b \in Chats :
          (a # b /\ conv[u][a] = _STATE_CURRENCY /\ FlowStep(u, b)) =>
              user_data'[u].oxapay_usd_amount = user_data[u].oxapay_usd_amount]_vars

\* a step that takes the flow of user u in chat c to its terminal state by
\* presenting an invoice, failing to create one, cancelling or timing out
TerminalStep(u, c) ==
    \/ /\ ~IsNone(flow_busy)
       /\ Val(flow_busy).user = u /\ Val(flow_busy).chat = c
       /\ \E net \in NetOutcomes : invoice_result(create_invoice(net))
    \/ oxapay_cancel(u, c)
    \/ conversation_timeout(u, c)

\* C14: when the flow reaches its terminal state (invoice presented, invoice
\* creation failed, cancellation, idle timeout) the session's USD amount and
\* awaiting-custom flag are no longer set.
C14_TerminalDiscardsSession ==
    [][\A u \in SpecUsers, c \in Chats :
          TerminalStep(u, c) =>
              /\ conv'[u][c] = END
              /\ IsNone(user_data'[u].oxapay_usd_amount)
              /\ IsNone(user_data'[u].oxapay_awaiting_custom)]_vars

\* user ids and timestamps the round trip is computed for
RoundTripIds == {1, 9, 10, 12, 101, 12345, 2000000000}
RoundTripTimestamps == {0, 5, 60, 1700000000}

\* C15: the order reference {user_id}_{timestamp} built at invoice creation is
\* parsed by the webhook handler back to exactly that user id, for every
\* positive user id and every timestamp; every reference the flow has sent
\* resolves to the user it was built for, and a credit made for the order of
\* an invoice goes to the user of that invoice.
C15_OrderReferenceRoundTrip ==
    /\ \A u \in RoundTripIds, t \in RoundTripTimestamps :
          resolve_user(order_id_for(u, t)) = Some(u)
    /\ \A k \in 1..Len(requests) :
          /\ \E t \in 0..now : requests[k].order_id = order_id_for(requests[k].user, t)
          /\ resolve_user(requests[k].order_id) = Some(requests[k].user)
    /\ \A x \in Credits, i \in invoices :
          CreditKey(x) = i.order_id => log[x[1]][x[2]].user = i.user

\* C15 witness: the order of an invoice created for user 12 has been credited
\* to user 12.
C15_Witness ==
    \E x \in Credits, i \in invoices :
        /\ i.user = 12
        /\ i.order_id = <<"1","2","_","5">>
        /\ CreditKey(x) = i.order_id
        /\ log[x[1]][x[2]].user = 12
        /\ user_wallets[12][i.coin] > 0

\* ---------------------------------------------------------- webhook claims
\* 0.5% of an amount
HalfPercent(amount) == (amount * 5) \div 1000
\* the commission ledger of user r for a coin; nothing before r's record exists
Ledger(stats, r, coin) == IF r \in DOMAIN stats THEN stats[r].commissions[coin] ELSE 0
\* the step of task h in which a credit is made
CreditStep(h) == Len(log'[h]) = Len(log[h]) + 1 /\ Last(log'[h]).ev = "credit"

\* C16: the step that credits a payment to a user referred by another user
\* raises the referrer's commission ledger for the paid currency by 0.5% of
\* the paid amount and leaves the referrer's ledger for every other currency
\* unchanged; when the credited user has no referrer the step changes no
\* ledger; and no step other than a credit changes a ledger.
C16_ReferralCommission ==
    [][/\ \A h \in Handlers :
            CreditStep(h) =>
                LET e == Last(log'[h])
                    r == Referrer(e.user)
                IN  /\ r # 0 =>
                          /\ r \in DOMAIN user_stats'
                          /\ Ledger(user_stats', r, e.coin) =
                                Ledger(user_stats, r, e.coin) + HalfPercent(e.amount)
                    /\ \A u \in Users, c \in Coins :
                          (u # r \/ c # e.coin) =>
                              Ledger(user_stats', u, c) = Ledger(user_stats, u, c)
       /\ (\A h \in Handlers : ~CreditStep(h)) =>
              \A u \in Users, c \in Coins :
                  Ledger(user_stats', u, c) = Ledger(user_stats, u, c)]_vars

\* ------------------------------------------------------------- flow claims
\* C17: a back action by the owner of the menu in currency selection or in
\* the custom-amount input state clears the session's USD amount and
\* awaiting-custom flag and puts the flow in the amount-selection state; and
\* every step that takes a flow into currency selection sets, in that step,
\* the amount the selection is for.
C17_BackDiscardsAmount ==
    [][\A u \in SpecUsers, c \in Chats :
          /\ (conv[u][c] \in {_STATE_CURRENCY, _STATE_CUSTOM}
                /\ oxapay_back_to_amounts(u, c, TRUE)) =>
                 /\ conv'[u][c] = _STATE_AMOUNT
                 /\ IsNone(user_data'[u].oxapay_usd_amount)
                 /\ IsNone(user_data'[u].oxapay_awaiting_custom)
          /\ (conv[u][c] # _STATE_CURRENCY /\ conv'[u][c] = _STATE_CURRENCY) =>
                 /\ conv[u][c] \in {_STATE_AMOUNT, _STATE_CUSTOM}
                 /\ ~IsNone(user_data'[u].oxapay_usd_amount)
                 /\ \/ \E amt \in preset_amounts : oxapay_preset_amount(u, c, amt, TRUE)
                    \/ \E text \in Texts : oxapay_receive_custom_amount(u, c, text)]_vars

\* C17 witness: the flow is in currency selection for $10 and the owner's
\* back action, taken from here, ends in amount selection with the amount and
\* the flag cleared.
C17_Witness ==
    \E u \in SpecUsers, c \in Chats :
        /\ conv[u][c] = _STATE_CURRENCY
        /\ user_data[u].oxapay_usd_amount = Some(Float(10))
        /\ ENABLED (/\ oxapay_back_to_amounts(u, c, TRUE)
                    /\ conv'[u][c] = _STATE_AMOUNT
                    /\ IsNone(user_data'[u].oxapay_usd_amount)
                    /\ IsNone(user_data'[u].oxapay_awaiting_custom))

FailedOutcomes == {"timeout", "client_error", "exception", "http_error", "api_error",
                   "result_100"}
LastOrder(data, u) == <<data[u].oxapay_last_order, data[u].oxapay_last_coin>>

\* C19: a step issues at most one invoice-creation request, and only while no
\* request is pending; the step that receives the outcome issues none (no
\* retry); when the request failed or its response has no payment link the
\* flow ends and the session's last order id and last coin are unchanged; and
\* the two fields change only in the step that receives a payment link, to
\* the order and coin of that request.
C19_OneRequestNoRetry ==
    [][/\ Len(requests') <= Len(requests) + 1
       /\ Len(requests') = Len(requests) + 1 =>
             /\ IsNone(flow_busy)
             /\ flow_busy' = Some(Last(requests'))
             /\ SubSeq(requests', 1, Len(requests)) = requests
       /\ ~IsNone(flow_busy) => requests' = requests
       /\ \A net \in FailedOutcomes :
             invoice_result(create_invoice(net)) =>
                 /\ conv'[Val(flow_busy).user][Val(flow_busy).chat] = END
                 /\ \A u \in FlowUsers : LastOrder(user_data', u) = LastOrder(user_data, u)
       /\ \A u \in FlowUsers :
             LastOrder(user_data', u) # LastOrder(user_data, u) =>
                 /\ ~IsNone(flow_busy)
                 /\ Val(flow_busy).user = u
                 /\ invoice_result(create_invoice("result_100_link"))
                 /\ LastOrder(user_data', u) =
                       <<Some(Val(flow_busy).order_id), Some(Val(flow_busy).coin)>>]_vars

\* C19 witness: the one request of a selection has failed; the flow of that
\* chat has ended, no further request was issued and no order is remembered.
C19_Witness ==
    /\ Len(requests) = 1
    /\ IsNone(flow_busy)
    /\ invoices = {}
    /\ conv[requests[1].user][requests[1].chat] = END
    /\ IsNone(user_data[requests[1].user].oxapay_last_order)
    /\ IsNone(user_data[requests[1].user].oxapay_last_coin)

\* ---------------------------------------------------------- webhook claims
\* the body is JSON and carries no hmac field, or an empty one
Unsigned(data) == data.json /\ (IsNone(data.hmac) \/ Val(data.hmac) = EmptyHmac)

\* C20: a task that checks the signature of a body with no hmac field, or an
\* empty one, goes on to the status check, whatever the merchant key; and when
\* such a body has an accepted status, a positive pay amount and the order
\* reference of a user with a wallet, the task reaches the notification having
\* made the one credit that a correctly signed body with the same fields
\* stands for.
C20_UnsignedIsAuthentic ==
    [][\A h \in Handlers :
          /\ (Running(h, "signature") /\ Unsigned(req) /\ pc'[h] # pc[h]) =>
                 pc'[h] = "status"
          /\ ((Running(h, "notify") /\ Unsigned(req) /\ Eligible(req)) =>
                 log[h] = <<CreditOf(h, [req EXCEPT !.hmac =
                                            Some(hmac_new(merchant_key, req.fields))])>>)']_vars

\* C20 witness: a body with an empty hmac field was credited.
C20_Witness ==
    \E h \in Handlers :
        /\ Running(h, "notify")
        /\ req.hmac = Some(EmptyHmac)
        /\ Len(log[h]) = 1
        /\ log[h][1].ev = "credit"
        /\ log[h][1].amount = 200
        /\ user_wallets[log[h][1].user][log[h][1].coin] >= 200

\* C21: a task that handles a body whose status is none of paid, confirmed,
\* completed leaves the processed-order set as it was; and a task that gets to
\* the notification with a body of accepted status, positive pay amount and
\* the order reference of a user with a wallet has recorded the key and made
\* exactly one credit for it, whatever was delivered for that order before.
C21_IgnoredStatusKeepsKeyFree ==
    [][\A h \in Handlers :
          /\ (cur = h /\ req.json /\ ~StatusConfirmed(req)) =>
                 processed_orders' = processed_orders
          /\ ((Running(h, "notify") /\ Eligible(req)) =>
                 /\ Count(h, "credit") = 1
                 /\ log[h][1].key = dedup_key_of(extract(req).order_id, extract(req).track_id)
                 /\ log[h][1].key \in processed_orders
                 /\ Cardinality({ x \in Credits : CreditKey(x) = log[h][1].key }) = 1)']_vars

\* C21 witness: a body with status waiting for order 12_5 has been dropped at
\* the status check and the key 12_5 is still free for a later delivery.
C21_Witness ==
    \E h \in Handlers :
        /\ Running(h, "return")
        /\ signature_passes(req, merchant_key)
        /\ req.fields.status = Some(<<"w","a","i","t","i","n","g">>)
        /\ req.fields.orderId = Some(<<"1","2","_","5">>)
        /\ <<"1","2","_","5">> \notin processed_orders
        /\ ~is_duplicate(dedup_key_of(extract(req).order_id, extract(req).track_id),
                         processed_orders)

\* the dedup key of a body: its order id, or its track id when that is empty
KeyOf(data) ==
    IF get(data.fields.orderId, <<>>) # <<>> THEN get(data.fields.orderId, <<>>)
    ELSE get(data.fields.trackId, <<>>)

\* C22: deliveries with different dedup keys are credited independently,
\* however their tasks interleave: a task holds the loop from loading the
\* user to the end of crediting; every balance is the sum of all credits made
\* to it, so no credit is lost; a task at the notification with an eligible
\* body has made its credit; and an eligible body is dropped only when its own
\* key was recorded before.
C22_NoLostUpdate ==
    /\ \A h \in Handlers : pc[h] \in {"load", "credit"} => cur = h
    /\ \A u \in DOMAIN user_wallets, c \in Coins :
          user_wallets[u][c] = SumCredits(Credits, u, c)
    /\ \A x \in Credits, y \in Credits :
          (x # y /\ log[x[1]][x[2]].user = log[y[1]][y[2]].user
                 /\ log[x[1]][x[2]].coin = log[y[1]][y[2]].coin) =>
              user_wallets[log[x[1]][x[2]].user][log[x[1]][x[2]].coin] >=
                  log[x[1]][x[2]].amount + log[y[1]][y[2]].amount
    /\ \A h \in Handlers :
          /\ (Running(h, "notify") /\ Eligible(req)) =>
                 \E i \in 1..Len(log[h]) :
                     log[h][i].ev = "credit" /\ log[h][i].key = KeyOf(req)
          /\ (Running(h, "return") /\ Eligible(req)) => KeyOf(req) \in processed_orders

\* C22 witness: two payments of 200 with different keys for user 1 were
\* credited by two tasks, the second while the first was waiting for its
\* notification to be sent; the balance is 400.
C22_Witness ==
    \E h1 \in Handlers, h2 \in Handlers :
        /\ h1 # h2
        /\ pc[h1] = "sending"
        /\ Running(h2, "notify")
        /\ Count(h1, "credit") = 1 /\ Count(h2, "credit") = 1
        /\ log[h1][1].key # log[h2][1].key
        /\ log[h1][1].user = 1 /\ log[h2][1].user = 1
        /\ log[h1][1].coin = USDT /\ log[h2][1].coin = USDT
        /\ user_wallets[1][USDT] = 400

\* ------------------------------------------------------------- flow claims
\* C23: the step that sends an invoice-creation request finds a USD amount set
\* in the session of the requesting user and sends that amount, which is a
\* number of at least the configured minimum deposit.
C23_RequestAmountAtLeastMinimum ==
    [][Len(requests') > Len(requests) =>
          LET r == Last(requests')
          IN  /\ ~IsNone(user_data[r.user].oxapay_usd_amount)
              /\ r.amount_usd = Val(user_data[r.user].oxapay_usd_amount)
              /\ ~r.amount_usd.nan
              /\ r.amount_usd.v >= OXAPAY_MIN_DEPOSIT_USD]_vars

\* C24: in every reachable state the awaiting-custom flag of a user's session
\* is set only while a flow of that user is in the custom-amount input state.
C24_FlagOnlyInCustomState ==
    \A u \in SpecUsers :
        ~IsNone(user_data[u].oxapay_awaiting_custom) =>
            \E c \in Chats : conv[u][c] = _STATE_CUSTOM


====
